---- MODULE Spec2Model ----
(***************************************************************************)
(* Model of the track-scoring engine of mushroom_detector.py:               *)
(* MushroomTrackDetector (parse_gpx, calculate_metrics,                     *)
(* calculate_mushroom_score, analyze_gpx, _interpret_score) and the batch   *)
(* loop of main; and of scrape_hot_zone of wikiloc_scraper.py with the      *)
(* cache it saves to.                                                       *)
(*                                                                          *)
(* Numbers.  Python floats are modelled as exact rationals <<n, d>> in      *)
(* lowest terms with d > 0; <<0, 0>> is NaN.  A comparison with NaN is      *)
(* false, arithmetic on NaN gives NaN, as in IEEE 754.  The only inexact    *)
(* operation is the square root of a standard deviation, rounded down to    *)
(* 1/100.                                                                   *)
(*                                                                          *)
(* Geography.  A point's (latitude, longitude) is its offset in metres      *)
(* (north, east) on the local tangent plane; geodesic() is the Euclidean    *)
(* distance there, rounded down to the metre (exact between places on one   *)
(* meridian or one parallel).  Timestamps are seconds since 1 January 00:00 *)
(* of a non-leap year.                                                      *)
(***************************************************************************)
EXTENDS Integers, Sequences, FiniteSets, TLC

VARIABLES
    config_arg,     \* the argument given to MushroomTrackDetector(config)
    config,         \* self.config
    argv,           \* the GPX files the caller has still to analyze
    pc,             \* where the caller is: "call", "main", "interpret" before a call; "returned", "raised", "saved", "interpreted" after
    gpx_file,       \* the file of the last analyze_gpx call (None before the first)
    df,             \* the DataFrame of that call as it was left (None if not built)
    metrics,        \* the TrackMetrics of that call (None if not computed)
    total_score,    \* the score handed to _interpret_score (None if not computed)
    interpretation, \* the label _interpret_score returned ("" if not called)
    result,         \* the record analyze_gpx returned (None if it raised)
    error,          \* the exception analyze_gpx raised ("" if it returned)
    results,        \* main's list of result records
    saved,          \* the content of mushroom_analysis_results.json (None before it is written)
    processed,      \* the files main's loop (or the caller) has finished with, in order
    bearings,       \* <<bearing1, bearing2>> at an interior point (None outside the angle computation)
    delta,          \* (bearing2 - bearing1 + 180) % 360 - 180 (None before it is computed)
    angle_change,   \* abs(delta) (None before it is computed)
    use_selenium,   \* WikilocScraperAdvanced.use_selenium
    web,            \* what each search of the site finds now: strategy -> list of TrackInfo
    strategies,     \* the strategies argument of scrape_hot_zone (None for the default)
    all_tracks,     \* the list scrape_hot_zone returned (None before it returns)
    db,             \* the tracks table of wikiloc_cache.db: track_id -> row
    saves,          \* the save_track_to_db calls of the last scrape_hot_zone, in order
    downloaded      \* the track_ids for which download_all_gpx has stored GPX content

detectorVars == <<config_arg, config, argv, pc, gpx_file, df, metrics, total_score,
                  interpretation, result, error, results, saved, processed>>
angleVars == <<bearings, delta, angle_change>>
scraperVars == <<use_selenium, web, strategies, all_tracks, db, saves, downloaded>>

vars == <<detectorVars, angleVars, scraperVars>>

None == [none |-> TRUE]

(***************************************************************************)
(* Bounds of the model.                                                     *)
(***************************************************************************)
MaxLen == 4      \* longest track, in points
MaxUnsorted == 3 \* longest track whose points are not in time order
MaxTestScore == 100 \* largest score given to _interpret_score directly
MaxBatch == 3    \* most files on main's command line
MaxStopLen == 6  \* longest track given to the stop detector's specification
MaxTurnLen == 4  \* longest track given to the direction-change specification
BearingSteps == 72 \* the bearings tried are the multiples of 360 / BearingSteps degrees
MaxFound == 2    \* most tracks one search of the site returns

(***************************************************************************)
(* Float arithmetic.                                                        *)
(***************************************************************************)
NaN == <<0, 0>>
IsNaN(a) == a[2] = 0

Abs(x) == IF x < 0 THEN -x ELSE x

RECURSIVE Gcd(_, _)
Gcd(a, b) == IF b = 0 THEN a ELSE Gcd(b, a % b)

\* a / b in lowest terms for positive b
Rat(n, d) ==
    IF d = 0 THEN NaN
    ELSE IF d = 1 THEN <<n, 1>>
    ELSE LET g == Gcd(Abs(n), Abs(d))
             s == IF d < 0 THEN -1 ELSE 1
         IN  <<(s * n) \div g, (s * d) \div g>>

Num(n) == <<n, 1>>

Add(a, b) ==
    IF IsNaN(a) \/ IsNaN(b) THEN NaN
    ELSE IF a[2] = b[2] THEN Rat(a[1] + b[1], a[2])
    ELSE LET g == Gcd(a[2], b[2])
         IN  Rat(a[1] * (b[2] \div g) + b[1] * (a[2] \div g), (a[2] \div g) * b[2])
Neg(a) == <<-a[1], a[2]>>
Sub(a, b) == Add(a, Neg(b))
Mul(a, b) ==
    IF IsNaN(a) \/ IsNaN(b) THEN NaN
    ELSE LET g1 == Gcd(Abs(a[1]), b[2])
             g2 == Gcd(Abs(b[1]), a[2])
         IN  <<(a[1] \div g1) * (b[1] \div g2), (a[2] \div g2) * (b[2] \div g1)>>
\* float division; the model never divides by zero
Div(a, b) ==
    IF IsNaN(a) \/ IsNaN(b) THEN NaN
    ELSE Mul(a, IF b[1] < 0 THEN <<-b[2], -b[1]>> ELSE <<b[2], b[1]>>)

Lt(a, b) ==
    /\ ~IsNaN(a)
    /\ ~IsNaN(b)
    /\ IF a[2] = b[2] THEN a[1] < b[1]
       ELSE LET g == Gcd(a[2], b[2]) IN a[1] * (b[2] \div g) < b[1] * (a[2] \div g)
Le(a, b) ==
    /\ ~IsNaN(a)
    /\ ~IsNaN(b)
    /\ IF a[2] = b[2] THEN a[1] <= b[1]
       ELSE LET g == Gcd(a[2], b[2]) IN a[1] * (b[2] \div g) <= b[1] * (a[2] \div g)
Gt(a, b) == Lt(b, a)
Ge(a, b) == Le(b, a)

\* Python's min(a, b) and max(a, b): a unless b compares below (above) it.
PyMin(a, b) == IF Lt(b, a) THEN b ELSE a
PyMax(a, b) == IF Gt(b, a) THEN b ELSE a

RECURSIVE SumTo(_, _)
SumTo(s, k) == IF k = 0 THEN Num(0) ELSE Add(SumTo(s, k - 1), s[k])
SumSeq(s) == SumTo(s, Len(s))

\* Series.mean()
Mean(s) == IF s = <<>> THEN NaN ELSE Div(SumSeq(s), Num(Len(s)))

RECURSIVE ISqrtIn(_, _, _)
ISqrtIn(v, lo, hi) ==
    IF lo >= hi THEN lo
    ELSE LET mid == (lo + hi + 1) \div 2
         IN  IF mid * mid <= v THEN ISqrtIn(v, mid, hi) ELSE ISqrtIn(v, lo, mid - 1)
ISqrt(v) == ISqrtIn(v, 0, 46340)

\* math.sqrt of a non-negative float, rounded down to 1/100
Sqrt(a) == IF IsNaN(a) THEN NaN ELSE Rat(ISqrt((a[1] * 10000) \div a[2]), 100)

\* Series.std(): the sample standard deviation (ddof = 1), NaN for fewer than 2 values
Std(s) ==
    IF Len(s) < 2 THEN NaN
    ELSE LET m == Mean(s)
             sq == [i \in 1..Len(s) |-> Mul(Sub(s[i], m), Sub(s[i], m))]
         IN  Sqrt(Div(SumSeq(sq), Num(Len(s) - 1)))

\* round(x, 2): to the nearest 1/100, ties to even (by long division)
Round2(a) ==
    IF IsNaN(a) THEN NaN
    ELSE LET q0 == a[1] \div a[2]
             r0 == a[1] % a[2]
             d1 == (r0 * 10) \div a[2]
             r1 == (r0 * 10) % a[2]
             d2 == (r1 * 10) \div a[2]
             r2 == (r1 * 10) % a[2]
             h == q0 * 100 + d1 * 10 + d2
             up == 2 * r2 > a[2] \/ (2 * r2 = a[2] /\ h % 2 = 1)
         IN  Rat(IF up THEN h + 1 ELSE h, 100)

(***************************************************************************)
(* Geography and calendar (geopy.distance.geodesic, datetime).              *)
(***************************************************************************)
\* geodesic(point1, point2).kilometers
Geodesic(p1, p2) ==
    LET dn == p2[1] - p1[1]
        de == p2[2] - p1[2]
    IN  Rat(ISqrtIn(dn * dn + de * de, 0, Abs(dn) + Abs(de)), 1000)

\* math.degrees(math.atan2(x, y)) for x east and y north, in degrees, along
\* the compass axes and diagonals
Atan2Deg(x, y) ==
    CASE x = 0 /\ y >= 0 -> Num(0)
      [] x = 0 /\ y < 0 -> Num(180)
      [] y = 0 /\ x > 0 -> Num(90)
      [] y = 0 /\ x < 0 -> Num(-90)
      [] x # 0 /\ Abs(x) = Abs(y) ->
            Num((IF x > 0 THEN 1 ELSE -1) * (IF y > 0 THEN 45 ELSE 135))

\* x % 360 on floats: the result has the sign of the divisor
Mod360(a) ==
    LET q == a[1] \div (360 * a[2])
    IN  Sub(a, Num(360 * q))

CalculateBearing(lat1, lon1, lat2, lon2) ==
    LET initial_bearing == Atan2Deg(lon2 - lon1, lat2 - lat1)
    IN  Mod360(Add(initial_bearing, Num(360)))

DaysBeforeMonth == <<0, 31, 59, 90, 120, 151, 181, 212, 243, 273, 304, 334>>

\* Timestamp.month
Month(t) ==
    LET day == t \div 86400
    IN  CHOOSE m \in 1..12 :
            /\ DaysBeforeMonth[m] <= day
            /\ (m = 12 \/ day < DaysBeforeMonth[m + 1])

\* Timestamp.time(), in seconds since midnight
TimeOfDay(t) == t % 86400

(***************************************************************************)
(* Configuration: a dict from option names to values.                       *)
(***************************************************************************)
ScoreNames == <<"tortuosity", "avg_speed", "direction_changes", "stops", "season",
                "daytime", "duration", "altitude_variability", "spatial_density">>

ConfigKeys == {"max_mushroom_speed", "stop_speed_threshold", "min_stop_duration",
               "direction_change_threshold", "spring_months", "autumn_months",
               "day_start", "day_end", "min_duration", "max_duration", "weights"}

DefaultWeights ==
    [k \in {ScoreNames[i] : i \in 1..Len(ScoreNames)} |->
        CASE k = "tortuosity" -> Rat(20, 100)
          [] k \in {"avg_speed", "direction_changes"} -> Rat(15, 100)
          [] k \in {"stops", "season", "daytime", "duration"} -> Rat(10, 100)
          [] OTHER -> Rat(5, 100)]

DefaultConfig ==
    [k \in ConfigKeys |->
        CASE k = "max_mushroom_speed" -> Num(3)
          [] k = "stop_speed_threshold" -> Rat(5, 10)
          [] k = "min_stop_duration" -> Num(60)
          [] k = "direction_change_threshold" -> Num(30)
          [] k = "spring_months" -> {3, 4, 5}
          [] k = "autumn_months" -> {9, 10, 11}
          [] k = "day_start" -> 8 * 3600
          [] k = "day_end" -> 20 * 3600
          [] k = "min_duration" -> Num(2 * 3600)
          [] k = "max_duration" -> Num(6 * 3600)
          [] k = "weights" -> DefaultWeights]

\* self.config = config or self._default_config(): None and {} are falsy
InitConfig(arg) ==
    IF arg = None \/ DOMAIN arg = {} THEN DefaultConfig ELSE arg

Has(cfg, k) == k \in DOMAIN cfg

(***************************************************************************)
(* parse_gpx                                                                *)
(***************************************************************************)
RECURSIVE InsertByTime(_, _)
InsertByTime(row, s) ==
    IF s = <<>> THEN <<row>>
    ELSE IF s[Len(s)].time <= row.time THEN Append(s, row)
    ELSE Append(InsertByTime(row, SubSeq(s, 1, Len(s) - 1)), s[Len(s)])

\* A parse that leaves the rows in the order of the file
SortByTimeSkipped(s) == s

\* df.sort_values('time').reset_index(drop=True): rows of equal time keep their
\* order (numpy sorts fewer than 17 elements by insertion)
RECURSIVE SortByTime(_)
SortByTime(s) ==
    IF s = <<>> THEN <<>>
    ELSE InsertByTime(s[Len(s)], SortByTime(SubSeq(s, 1, Len(s) - 1)))

\* The DataFrame of a file's points, or the KeyError of df['time'] on the
\* column-less DataFrame of an empty point list
ParseGpx(file) ==
    IF file.points = <<>> THEN [ok |-> FALSE, error |-> "KeyError"]
    ELSE [ok |-> TRUE,
          df |-> SortByTime([i \in 1..Len(file.points) |->
                    [latitude |-> file.points[i].latitude,
                     longitude |-> file.points[i].longitude,
                     elevation |-> file.points[i].elevation,
                     time |-> file.points[i].time]])]

(***************************************************************************)
(* calculate_metrics                                                        *)
(***************************************************************************)
LatLon(row) == <<row.latitude, row.longitude>>

\* distances after k turns of the loop that appends the geodesic distance of
\* each pair of consecutive rows
RECURSIVE Distances(_, _)
Distances(d, k) ==
    IF k = 0 THEN <<>>
    ELSE Append(Distances(d, k - 1), Geodesic(LatLon(d[k]), LatLon(d[k + 1])))

\* df['time'].diff().dt.total_seconds(): NaN on the first row
TimeDiff(d, i) == IF i = 1 THEN NaN ELSE Num(d[i].time - d[i - 1].time)

\* distances + [0]
DistanceDiff(distances, i) == IF i = Len(distances) + 1 THEN Num(0) ELSE distances[i]

\* (distance_diff / (time_diff / 3600)) if time_diff > 0 else 0
SpeedKmh(distance_diff, time_diff) ==
    IF Gt(time_diff, Num(0)) THEN Div(distance_diff, Div(time_diff, Num(3600))) ELSE Num(0)

\* The first k rows of df after the three column assignments of calculate_metrics
RECURSIVE WithSpeedColumns(_, _, _)
WithSpeedColumns(d, distances, k) ==
    IF k = 0 THEN <<>>
    ELSE Append(WithSpeedColumns(d, distances, k - 1),
                [latitude |-> d[k].latitude, longitude |-> d[k].longitude,
                 elevation |-> d[k].elevation, time |-> d[k].time,
                 time_diff |-> TimeDiff(d, k),
                 distance_diff |-> DistanceDiff(distances, k),
                 speed_kmh |-> SpeedKmh(DistanceDiff(distances, k), TimeDiff(d, k))])

\* The difference of the bearings, not brought back into one turn
SignedDeltaUnwrapped(bearing1, bearing2) == Sub(bearing2, bearing1)

\* (bearing2 - bearing1 + 180) % 360 - 180
SignedDelta(bearing1, bearing2) ==
    Sub(Mod360(Add(Sub(bearing2, bearing1), Num(180))), Num(180))

\* abs((bearing2 - bearing1 + 180) % 360 - 180)
AngleChange(bearing1, bearing2) ==
    LET d == SignedDelta(bearing1, bearing2)
    IN  IF Lt(d, Num(0)) THEN Neg(d) ELSE d

\* Every interior row, whatever the lengths of its segments
TurnRowsAll(distances) == 2..Len(distances)

\* The interior rows at which both neighbouring segments have a length
TurnRows(distances) ==
    {i \in 2..Len(distances) : Gt(distances[i], Num(0)) /\ Gt(distances[i - 1], Num(0))}

DirectionChanges(d, distances, direction_change_threshold) ==
    Cardinality({i \in TurnRows(distances) :
        Gt(AngleChange(
               CalculateBearing(d[i - 1].latitude, d[i - 1].longitude, d[i].latitude, d[i].longitude),
               CalculateBearing(d[i].latitude, d[i].longitude, d[i + 1].latitude, d[i + 1].longitude)),
           direction_change_threshold)})

\* A count that starts from the stop_count of the record main appended last
InitialStopCountCarried ==
    IF results = <<>> THEN 0 ELSE results[Len(results)].metrics.stop_count

\* stop_count = 0 before the loop
InitialStopCount == 0

\* A test that lets the short stops through instead of the long ones
StopShortEnough(stop_duration, min_stop_duration) == Le(stop_duration, min_stop_duration)

\* stop_duration >= self.config['min_stop_duration']
StopLongEnough(stop_duration, min_stop_duration) == Ge(stop_duration, min_stop_duration)

\* A detector that keeps the time of the run it has just closed
StopDurationCarried(stop_duration) == stop_duration

\* stop_duration = 0 when movement resumes
StopDurationAfterMove(stop_duration) == Num(0)

\* The stop detector's variables after the loop body has run for rows 1..k of
\* rows (with their speed_kmh and time_diff columns); read_min_stop_duration
\* records whether config['min_stop_duration'] was read.
RECURSIVE StopLoop(_, _, _, _)
StopLoop(rows, k, threshold, min_stop_duration) ==
    IF k = 0
    THEN [stop_count |-> InitialStopCount, stop_duration |-> Num(0), in_stop |-> FALSE,
          read_min_stop_duration |-> FALSE]
    ELSE LET s == StopLoop(rows, k - 1, threshold, min_stop_duration)
         IN  IF Lt(rows[k].speed_kmh, threshold)
             THEN [stop_count |-> s.stop_count,
                   stop_duration |-> Add(s.stop_duration,
                                         IF k > 1 THEN rows[k].time_diff ELSE Num(0)),
                   in_stop |-> TRUE,
                   read_min_stop_duration |-> s.read_min_stop_duration]
             ELSE [stop_count |-> IF s.in_stop /\ StopLongEnough(s.stop_duration, min_stop_duration)
                                  THEN s.stop_count + 1 ELSE s.stop_count,
                   stop_duration |-> StopDurationAfterMove(s.stop_duration),
                   in_stop |-> FALSE,
                   read_min_stop_duration |-> s.read_min_stop_duration \/ s.in_stop]

\* A detector that also counts the run still open after the last row
StopCountWithOpenRun(rows, threshold, min_stop_duration) ==
    LET s == StopLoop(rows, Len(rows), threshold, min_stop_duration)
    IN  IF s.in_stop /\ Ge(s.stop_duration, min_stop_duration)
        THEN s.stop_count + 1 ELSE s.stop_count

\* stop_count when the loop has run over every row
StopCount(rows, threshold, min_stop_duration) ==
    StopLoop(rows, Len(rows), threshold, min_stop_duration).stop_count

\* The ratio taken upside down
TortuosityInverted(total_distance, straight_line_distance) ==
    IF Gt(straight_line_distance, Num(0))
    THEN Div(straight_line_distance, total_distance)
    ELSE Num(1)

\* total_distance / straight_line_distance if straight_line_distance > 0 else 1
TortuosityIndex(total_distance, straight_line_distance) ==
    IF Gt(straight_line_distance, Num(0))
    THEN Div(total_distance, straight_line_distance)
    ELSE Num(1)

\* direction_changes / total_distance if total_distance > 0 else 0
DirectionChangesPerKm(direction_changes, total_distance) ==
    IF Gt(total_distance, Num(0)) THEN Div(Num(direction_changes), total_distance) ELSE Num(0)

\* The density without its guard: the division is left undefined at 0
SpatialDensityUnguarded(n, total_distance) == Div(Num(n), total_distance)

\* len(df) / total_distance if total_distance > 0 else 0
SpatialDensity(n, total_distance) ==
    IF Gt(total_distance, Num(0)) THEN Div(Num(n), total_distance) ELSE Num(0)

\* The duration score without its floor of 0 for an over-long track
DurationScoreUnclamped(total_duration, cfg) ==
    IF Le(cfg["min_duration"], total_duration) /\ Le(total_duration, cfg["max_duration"])
    THEN Num(1)
    ELSE IF Lt(total_duration, cfg["min_duration"])
    THEN Div(total_duration, cfg["min_duration"])
    ELSE Sub(Num(1), Div(Sub(total_duration, cfg["max_duration"]),
                         Mul(cfg["max_duration"], Num(2))))

DurationScore(total_duration, cfg) ==
    IF Le(cfg["min_duration"], total_duration) /\ Le(total_duration, cfg["max_duration"])
    THEN Num(1)
    ELSE IF Lt(total_duration, cfg["min_duration"])
    THEN Div(total_duration, cfg["min_duration"])
    ELSE PyMax(Num(0), Sub(Num(1), Div(Sub(total_duration, cfg["max_duration"]),
                                        Mul(cfg["max_duration"], Num(2)))))

\* calculate_metrics on a DataFrame of at least one row: the TrackMetrics and
\* the DataFrame as the call leaves it, or the KeyError of the first option read
\* that cfg lacks.  speed_std, which nothing reads, is left out.
CalculateMetrics(d, cfg) ==
    LET n == Len(d)
        distances == Distances(d, n - 1)
        total_distance == SumSeq(distances)
        straight_line_distance == Geodesic(LatLon(d[1]), LatLon(d[n]))
        rows == WithSpeedColumns(d, distances, n)
        min_stop_duration ==
            IF Has(cfg, "min_stop_duration") THEN cfg["min_stop_duration"] ELSE NaN
        stops == StopLoop(rows, n, cfg["stop_speed_threshold"], min_stop_duration)
        total_duration == Num(d[n].time - d[1].time)
        elevations == [i \in 1..n |-> Num(d[i].elevation)]
        daytime_points == Cardinality({i \in 1..n :
                              /\ cfg["day_start"] <= TimeOfDay(d[i].time)
                              /\ TimeOfDay(d[i].time) <= cfg["day_end"]})
        key_error ==
            \/ TurnRows(distances) # {} /\ ~Has(cfg, "direction_change_threshold")
            \/ ~Has(cfg, "stop_speed_threshold")
            \/ stops.read_min_stop_duration /\ ~Has(cfg, "min_stop_duration")
            \/ ~Has(cfg, "spring_months") \/ ~Has(cfg, "autumn_months")
            \/ ~Has(cfg, "day_start") \/ ~Has(cfg, "day_end")
            \/ ~Has(cfg, "min_duration")
            \/ Le(cfg["min_duration"], total_duration) /\ ~Has(cfg, "max_duration")
    IN  IF key_error THEN [ok |-> FALSE, error |-> "KeyError"]
        ELSE
        [ok |-> TRUE,
         df |-> rows,
         metrics |->
           [total_distance |-> total_distance,
            straight_line_distance |-> straight_line_distance,
            tortuosity_index |-> TortuosityIndex(total_distance, straight_line_distance),
            avg_speed |-> Mean([i \in 1..n |-> rows[i].speed_kmh]),
            direction_changes_per_km |->
                DirectionChangesPerKm(
                    DirectionChanges(d, distances, cfg["direction_change_threshold"]),
                    total_distance),
            stop_count |-> StopCount(rows, cfg["stop_speed_threshold"], min_stop_duration),
            total_duration |-> total_duration,
            avg_altitude |-> Mean(elevations),
            altitude_variability |-> Std(elevations),
            season_score |-> IF Month(d[1].time) \in cfg["spring_months"] \cup cfg["autumn_months"]
                             THEN Num(1) ELSE Num(0),
            time_score |-> Rat(daytime_points, n),
            duration_score |-> DurationScore(total_duration, cfg),
            spatial_density |-> SpatialDensity(n, total_distance)]]

(***************************************************************************)
(* calculate_mushroom_score, _interpret_score, analyze_gpx                  *)
(***************************************************************************)
\* The penalty without its floor of 0
SpeedPenaltyUnclamped(avg_speed, max_mushroom_speed) ==
    Sub(Num(1), Div(Sub(avg_speed, max_mushroom_speed), max_mushroom_speed))

\* max(0, 1 - (avg_speed - max_mushroom_speed) / max_mushroom_speed)
SpeedPenalty(avg_speed, max_mushroom_speed) ==
    PyMax(Num(0), Sub(Num(1), Div(Sub(avg_speed, max_mushroom_speed), max_mushroom_speed)))

\* The scores dict of calculate_mushroom_score
Scores(m, cfg) ==
    [k \in {ScoreNames[i] : i \in 1..Len(ScoreNames)} |->
        CASE k = "tortuosity" -> PyMin(Div(m.tortuosity_index, Num(3)), Num(1))
          [] k = "avg_speed" ->
                IF Le(m.avg_speed, cfg["max_mushroom_speed"]) THEN Num(1)
                ELSE SpeedPenalty(m.avg_speed, cfg["max_mushroom_speed"])
          [] k = "direction_changes" -> PyMin(Div(m.direction_changes_per_km, Num(10)), Num(1))
          [] k = "stops" -> PyMin(Rat(m.stop_count, 10), Num(1))
          [] k = "season" -> m.season_score
          [] k = "daytime" -> m.time_score
          [] k = "duration" -> m.duration_score
          [] k = "altitude_variability" -> PyMin(Div(m.altitude_variability, Num(50)), Num(1))
          [] k = "spatial_density" -> PyMin(Div(m.spatial_density, Num(100)), Num(1))]

\* sum(scores[metric] * weights[metric] for metric in weights)
RECURSIVE WeightedSum(_, _, _)
WeightedSum(scores, weights, i) ==
    IF i = 0 THEN Num(0)
    ELSE Add(WeightedSum(scores, weights, i - 1),
             IF ScoreNames[i] \in DOMAIN weights
             THEN Mul(scores[ScoreNames[i]], weights[ScoreNames[i]])
             ELSE Num(0))

\* calculate_mushroom_score: (total_score * 100, scores), or the exception raised
CalculateMushroomScore(m, cfg) ==
    IF \/ ~Has(cfg, "max_mushroom_speed")
       \/ ~Has(cfg, "weights")
       \/ ~(DOMAIN cfg["weights"] \subseteq {ScoreNames[i] : i \in 1..Len(ScoreNames)})
    THEN [ok |-> FALSE, error |-> "KeyError"]
    ELSE LET scores == Scores(m, cfg)
         IN  [ok |-> TRUE,
              total_score |-> Mul(WeightedSum(scores, cfg["weights"], Len(ScoreNames)), Num(100)),
              component_scores |-> scores]

High == "ALTA probabilidad de track micologico"
Medium == "MEDIA probabilidad de track micologico"
Low == "BAJA probabilidad de track micologico"
NotLikely == "Probablemente NO es un track micologico"

\* Bands whose lower boundary belongs to the band below
InterpretScoreExclusive(score) ==
    IF Gt(score, Num(80)) THEN High
    ELSE IF Gt(score, Num(60)) THEN Medium
    ELSE IF Gt(score, Num(40)) THEN Low
    ELSE NotLikely

InterpretScore(score) ==
    IF Ge(score, Num(80)) THEN High
    ELSE IF Ge(score, Num(60)) THEN Medium
    ELSE IF Ge(score, Num(40)) THEN Low
    ELSE NotLikely

\* The dict analyze_gpx returns
ResultRecord(file, m, score) ==
    [filename |-> file.name,
     total_score |-> Round2(score.total_score),
     component_scores |-> [k \in DOMAIN score.component_scores |->
                              Round2(Mul(score.component_scores[k], Num(100)))],
     metrics |-> [total_distance_km |-> Round2(m.total_distance),
                  straight_line_distance_km |-> Round2(m.straight_line_distance),
                  tortuosity_index |-> Round2(m.tortuosity_index),
                  avg_speed_kmh |-> Round2(m.avg_speed),
                  direction_changes_per_km |-> Round2(m.direction_changes_per_km),
                  stop_count |-> m.stop_count,
                  total_duration_hours |-> Round2(Div(m.total_duration, Num(3600))),
                  spatial_density |-> Round2(m.spatial_density)],
     interpretation |-> InterpretScore(score.total_score)]

\* One call of analyze_gpx: what it leaves behind
AnalyzeGpx(file, cfg) ==
    LET parsed == ParseGpx(file)
        calc == CalculateMetrics(parsed.df, cfg)
        score == CalculateMushroomScore(calc.metrics, cfg)
        raised == [df |-> None, metrics |-> None, total_score |-> None, interpretation |-> "",
                   result |-> None, error |-> "KeyError"]
    IN  IF ~parsed.ok THEN raised
        ELSE IF ~calc.ok THEN [raised EXCEPT !.df = parsed.df]
        ELSE IF ~score.ok THEN [raised EXCEPT !.df = calc.df, !.metrics = calc.metrics]
        ELSE [df |-> calc.df,
              metrics |-> calc.metrics,
              total_score |-> score.total_score,
              interpretation |-> InterpretScore(score.total_score),
              result |-> ResultRecord(file, calc.metrics, score),
              error |-> ""]

(***************************************************************************)
(* Inputs.                                                                  *)
(***************************************************************************)
\* Three places on a north-south trail, as <<metres north, metres east>>, and
\* the terrain's elevation there
Places == {<<0, 0>>, <<30, 0>>, <<200, 0>>}
Terrain(place) == IF place[1] = 0 THEN 100 ELSE IF place[1] = 30 THEN 110 ELSE 190

\* 30 November, 19:56:00, 19:57:00 and 20:01:00
Times == {28842960, 28843020, 28843260}

TrackPoints ==
    {[latitude |-> p[1], longitude |-> p[2], elevation |-> Terrain(p), time |-> t] :
        p \in Places, t \in Times}

Ascending(s) == \A i \in 1..(Len(s) - 1) : s[i].time <= s[i + 1].time
Descending(s) == \A i \in 1..(Len(s) - 1) : s[i].time >= s[i + 1].time

\* The point lists of the GPX files: up to MaxLen points in time order, or up
\* to MaxUnsorted points in reverse time order
Tracks ==
    UNION ({{s \in [1..n -> TrackPoints] : Ascending(s)} : n \in 0..MaxLen}
           \cup {{s \in [1..n -> TrackPoints] : Descending(s)} : n \in 0..MaxUnsorted})

GpxFiles == {[name |-> "track.gpx", points |-> s] : s \in Tracks}

CustomWeights ==
    [k \in {ScoreNames[i] : i \in 1..Len(ScoreNames)} |->
        IF k = "stops" THEN Num(0) ELSE IF k = "avg_speed" THEN Num(2) ELSE Rat(1, 4)]

CustomConfig ==
    [k \in ConfigKeys |->
        CASE k = "max_mushroom_speed" -> Num(1)
          [] k = "stop_speed_threshold" -> Num(2)
          [] k = "min_stop_duration" -> Num(120)
          [] k = "direction_change_threshold" -> Num(120)
          [] k = "spring_months" -> {3, 4, 5}
          [] k = "autumn_months" -> {9, 10}
          [] k = "day_start" -> 19 * 3600 + 57 * 60
          [] k = "day_end" -> 20 * 3600
          [] k = "min_duration" -> Num(60)
          [] k = "max_duration" -> Num(60)
          [] k = "weights" -> CustomWeights]

PartialConfig == [k \in {"min_stop_duration"} |-> Num(30)]

ConfigArgs == {None, PartialConfig, CustomConfig}

(***************************************************************************)
(* The detector used through analyze_gpx: one detector, one call.           *)
(***************************************************************************)
Idle ==
    /\ gpx_file = None
    /\ df = None
    /\ metrics = None
    /\ total_score = None
    /\ interpretation = ""
    /\ result = None
    /\ error = ""
    /\ results = <<>>
    /\ saved = None
    /\ processed = <<>>

\* No angle computation under way
AngleIdle ==
    /\ bearings = None
    /\ delta = None
    /\ angle_change = None

\* No scraper in use
ScraperIdle ==
    /\ use_selenium = FALSE
    /\ web = None
    /\ strategies = None
    /\ all_tracks = None
    /\ db = <<>>
    /\ saves = <<>>
    /\ downloaded = {}

Init ==
    /\ config_arg \in ConfigArgs
    /\ config = InitConfig(config_arg)
    /\ argv \in {<<f>> : f \in GpxFiles}
    /\ pc = "call"
    /\ Idle
    /\ AngleIdle
    /\ ScraperIdle

\* analyze_gpx(file) on the detector, and what the call leaves behind
Call(file) ==
    LET out == AnalyzeGpx(file, config)
    IN  /\ gpx_file' = file
        /\ df' = out.df
        /\ metrics' = out.metrics
        /\ total_score' = out.total_score
        /\ interpretation' = out.interpretation
        /\ result' = out.result
        /\ error' = out.error

\* detector.analyze_gpx(file)
Analyze ==
    /\ pc = "call"
    /\ argv # <<>>
    /\ Call(Head(argv))
    /\ pc' = IF error' = "" THEN "returned" ELSE "raised"
    /\ argv' = Tail(argv)
    /\ processed' = Append(processed, Head(argv))
    /\ UNCHANGED <<config_arg, config, results, saved, angleVars, scraperVars>>

Next == Analyze

Spec == Init /\ [][Next]_vars

(***************************************************************************)
(* main: one default detector analyzes the files of the command line in     *)
(* turn, keeps the records of those that did not raise, and writes them.    *)
(***************************************************************************)
Point(north, elevation, time) ==
    [latitude |-> north, longitude |-> 0, elevation |-> elevation, time |-> time]

\* The files on disk
Disk ==
    {[name |-> "stops.gpx",
      points |-> <<Point(0, 100, 28842960), Point(0, 100, 28843020),
                   Point(0, 100, 28843260), Point(200, 190, 28843260)>>],
     [name |-> "walk.gpx",
      points |-> <<Point(0, 100, 28842960), Point(30, 110, 28843020), Point(200, 190, 28843260)>>],
     [name |-> "single.gpx", points |-> <<Point(0, 100, 28842960)>>],
     [name |-> "empty.gpx", points |-> <<>>]}

InitMain ==
    /\ config_arg = None
    /\ config = InitConfig(config_arg)
    /\ argv \in UNION {[1..n -> Disk] : n \in 0..MaxBatch}
    /\ pc = "main"
    /\ Idle
    /\ AngleIdle
    /\ ScraperIdle

\* A loop that keeps what a failed analysis left behind as well
CollectedAlways(res, analysis, raised) == Append(res, analysis)

\* results after one turn of the loop: the analysis is appended unless
\* analyze_gpx raised
Collected(res, analysis, raised) == IF raised = "" THEN Append(res, analysis) ELSE res

\* One turn of main's loop: try analyze_gpx and append, except print the error
MainIteration ==
    /\ pc = "main"
    /\ argv # <<>>
    /\ Call(Head(argv))
    /\ results' = Collected(results, result', error')
    /\ argv' = Tail(argv)
    /\ processed' = Append(processed, Head(argv))
    /\ UNCHANGED <<config_arg, config, pc, saved, angleVars, scraperVars>>

\* json.dump(results, f) after the loop
MainSave ==
    /\ pc = "main"
    /\ argv = <<>>
    /\ saved' = results
    /\ pc' = "saved"
    /\ UNCHANGED <<config_arg, config, argv, gpx_file, df, metrics, total_score,
                   interpretation, result, error, results, processed, angleVars, scraperVars>>

NextMain == MainIteration \/ MainSave

SpecMain == InitMain /\ [][NextMain]_vars

(***************************************************************************)
(* _interpret_score called on its own, on scores k / 100.                   *)
(***************************************************************************)
TestScores == {Rat(k, 100) : k \in 0..(100 * MaxTestScore)}

InitInterpret ==
    /\ config_arg = None
    /\ config = InitConfig(config_arg)
    /\ argv = <<>>
    /\ pc = "interpret"
    /\ gpx_file = None
    /\ df = None
    /\ metrics = None
    /\ total_score \in TestScores
    /\ interpretation = ""
    /\ result = None
    /\ error = ""
    /\ results = <<>>
    /\ saved = None
    /\ processed = <<>>
    /\ AngleIdle
    /\ ScraperIdle

\* detector._interpret_score(total_score)
Interpret ==
    /\ pc = "interpret"
    /\ interpretation' = InterpretScore(total_score)
    /\ pc' = "interpreted"
    /\ UNCHANGED <<config_arg, config, argv, gpx_file, df, metrics, total_score, result,
                   error, results, saved, processed, angleVars, scraperVars>>

NextInterpret == Interpret

SpecInterpret == InitInterpret /\ [][NextInterpret]_vars

(***************************************************************************)
(* analyze_gpx on tracks that stop and go: points at two places of a trail, *)
(* each 0 or 60 seconds after the one before.                               *)
(***************************************************************************)
StopPlaces == {0, 200}
StopSteps == {0, 60}

\* 30 November, 19:56:00
StopStart == 333 * 86400 + 19 * 3600 + 56 * 60

RECURSIVE Elapsed(_, _)
Elapsed(steps, k) == IF k = 0 THEN 0 ELSE Elapsed(steps, k - 1) + steps[k]

StopTracks ==
    UNION {{[i \in 1..n |-> Point(norths[i], 100, StopStart + Elapsed(steps, i - 1))] :
                norths \in [1..n -> StopPlaces], steps \in [1..(n - 1) -> StopSteps]} :
           n \in 2..MaxStopLen}

InitStops ==
    /\ config_arg = None
    /\ config = InitConfig(config_arg)
    /\ argv \in {<<[name |-> "stops.gpx", points |-> s]>> : s \in StopTracks}
    /\ pc = "call"
    /\ Idle
    /\ AngleIdle
    /\ ScraperIdle

NextStops == Analyze

SpecStops == InitStops /\ [][NextStops]_vars

(***************************************************************************)
(* analyze_gpx on tracks that turn: points on the corners of a square of    *)
(* 100 m, one minute apart, under the default configuration, CustomConfig   *)
(* and a configuration whose only weight is on the daytime score.           *)
(***************************************************************************)
TurnPlaces == {<<0, 0>>, <<100, 0>>, <<0, 100>>, <<100, 100>>}

\* 30 November, 19:57:00
TurnStart == 333 * 86400 + 19 * 3600 + 57 * 60

TurnTracks ==
    UNION {{[i \in 1..n |-> [latitude |-> places[i][1], longitude |-> places[i][2],
                             elevation |-> 100, time |-> TurnStart + 60 * (i - 1)]] :
                places \in [1..n -> TurnPlaces]} :
           n \in 2..MaxTurnLen}

DaytimeWeights ==
    [k \in {ScoreNames[i] : i \in 1..Len(ScoreNames)} |->
        IF k = "daytime" THEN Rat(399975, 1000000) ELSE Num(0)]

DaytimeConfig == [DefaultConfig EXCEPT !["weights"] = DaytimeWeights]

InitTurns ==
    /\ config_arg \in {None, CustomConfig, DaytimeConfig}
    /\ config = InitConfig(config_arg)
    /\ argv \in {<<[name |-> "turns.gpx", points |-> s]>> : s \in TurnTracks}
    /\ pc = "call"
    /\ Idle
    /\ AngleIdle
    /\ ScraperIdle

NextTurns == Analyze

SpecTurns == InitTurns /\ [][NextTurns]_vars

(***************************************************************************)
(* The angle between two bearings, as calculate_metrics computes it at an   *)
(* interior point, on bearings of [0, 360).                                 *)
(***************************************************************************)
Bearings == {Rat(360 * k, BearingSteps) : k \in 0..(BearingSteps - 1)}

InitAngle ==
    /\ config_arg = None
    /\ config = InitConfig(config_arg)
    /\ argv = <<>>
    /\ pc = "angle"
    /\ Idle
    /\ bearings \in Bearings \X Bearings
    /\ delta = None
    /\ angle_change = None
    /\ ScraperIdle

\* angle_change = abs((bearing2 - bearing1 + 180) % 360 - 180)
Angle ==
    /\ pc = "angle"
    /\ delta' = SignedDelta(bearings[1], bearings[2])
    /\ angle_change' = AngleChange(bearings[1], bearings[2])
    /\ pc' = "angled"
    /\ UNCHANGED <<config_arg, config, argv, gpx_file, df, metrics, total_score,
                   interpretation, result, error, results, saved, processed, bearings,
                   scraperVars>>

NextAngle == Angle

SpecAngle == InitAngle /\ [][NextAngle]_vars

(***************************************************************************)
(* wikiloc_scraper.py: WikilocScraperAdvanced.scrape_hot_zone.  A TrackInfo *)
(* is modelled by its track_id and its title; the title tells which search  *)
(* listed it.  The searches catch their own errors and return a list.       *)
(***************************************************************************)
StrategyNames == {"coordinates", "keywords", "selenium", "api", "users"}

\* strategies = ['coordinates', 'keywords', 'api'] when none are given
DefaultStrategies == <<"coordinates", "keywords", "api">>

\* tracks.append(track) if track not in tracks: the list without repeated elements
RECURSIVE WithoutRepeats(_, _)
WithoutRepeats(tracks, k) ==
    IF k = 0 THEN <<>>
    ELSE LET before == WithoutRepeats(tracks, k - 1)
         IN  IF \E i \in 1..Len(before) : before[i] = tracks[k] THEN before
             ELSE Append(before, tracks[k])

\* The tracks the branch of scrape_hot_zone for a strategy gets from its search
Search(strategy, site, selenium) ==
    IF strategy = "coordinates" THEN site["coordinates"]
    ELSE IF strategy = "keywords" THEN WithoutRepeats(site["keywords"], Len(site["keywords"]))
    ELSE IF strategy = "selenium" /\ selenium THEN site["selenium"]
    ELSE IF strategy = "api" THEN site["api"]
    ELSE IF strategy = "users" THEN site["users"]
    ELSE <<>>

\* save_track_to_db: INSERT OR REPLACE of the row of track.track_id
SaveTrackToDb(table, track, gpx_content) ==
    [id \in DOMAIN table \cup {track.track_id} |->
        IF id = track.track_id THEN [title |-> track.title, gpx_content |-> gpx_content]
        ELSE table[id]]

\* A scrape that does not remember the ids it has seen
SeenForgotten(seen_ids, track) == seen_ids

\* seen_ids.add(track.track_id)
SeenAdd(seen_ids, track) == seen_ids \cup {track.track_id}

\* The loop over the tracks of one strategy, after k of them
RECURSIVE KeepNew(_, _, _)
KeepNew(st, tracks, k) ==
    IF k = 0 THEN st
    ELSE LET before == KeepNew(st, tracks, k - 1)
             track == tracks[k]
         IN  IF track.track_id \notin before.seen_ids
             THEN [all_tracks |-> Append(before.all_tracks, track),
                   seen_ids |-> SeenAdd(before.seen_ids, track),
                   db |-> SaveTrackToDb(before.db, track, None),
                   saves |-> Append(before.saves, track)]
             ELSE before

\* The loop over the strategies, after k of them
RECURSIVE ScrapeLoop(_, _, _, _, _)
ScrapeLoop(strats, k, site, selenium, table) ==
    IF k = 0 THEN [all_tracks |-> <<>>, seen_ids |-> {}, db |-> table, saves |-> <<>>]
    ELSE LET tracks == Search(strats[k], site, selenium)
         IN  KeepNew(ScrapeLoop(strats, k - 1, site, selenium, table), tracks, Len(tracks))

(***************************************************************************)
(* One scraper, one call of scrape_hot_zone on what the site lists now.     *)
(***************************************************************************)
TrackIds == {"101", "102", ""}

\* The ids a search can list: up to MaxFound of them
IdLists == UNION {[1..n -> TrackIds] : n \in 0..MaxFound}

\* The tracks of a list of ids, under the title of the search that lists them
Listing(strategy, ids) == [i \in 1..Len(ids) |-> [track_id |-> ids[i], title |-> strategy]]

StrategyLists ==
    {None, <<>>, <<"coordinates", "keywords">>, <<"selenium", "api">>, <<"users", "users">>,
     <<"api", "heatmap">>}

\* The strategies a call runs
Strategies(arg) == IF arg = None THEN DefaultStrategies ELSE arg

Asked(arg) == {Strategies(arg)[i] : i \in 1..Len(Strategies(arg))} \cap StrategyNames

InitScrape ==
    /\ config_arg = None
    /\ config = InitConfig(config_arg)
    /\ argv = <<>>
    /\ pc = "scrape"
    /\ Idle
    /\ AngleIdle
    /\ strategies \in StrategyLists
    /\ use_selenium \in (IF "selenium" \in Asked(strategies) THEN BOOLEAN ELSE {FALSE})
    /\ \E found \in [Asked(strategies) -> IdLists] :
          web = [n \in StrategyNames |->
                    IF n \in Asked(strategies) THEN Listing(n, found[n]) ELSE <<>>]
    /\ all_tracks = None
    /\ db = <<>>
    /\ saves = <<>>
    /\ downloaded = {}

\* scraper.scrape_hot_zone(zone, strategies)
ScrapeHotZone ==
    /\ pc = "scrape"
    /\ LET out == ScrapeLoop(Strategies(strategies), Len(Strategies(strategies)), web,
                             use_selenium, db)
       IN  /\ all_tracks' = out.all_tracks
           /\ db' = out.db
           /\ saves' = out.saves
    /\ pc' = "scraped"
    /\ UNCHANGED <<config_arg, config, argv, gpx_file, df, metrics, total_score,
                   interpretation, result, error, results, saved, processed, angleVars,
                   use_selenium, web, strategies, downloaded>>

NextScrape == ScrapeHotZone

SpecScrape == InitScrape /\ [][NextScrape]_vars

(***************************************************************************)
(* One scraper used again and again on a site that does not change:         *)
(* scrape_hot_zone, download_all_gpx on the list it returned, and           *)
(* save_track_to_db called directly, in any order.  The caller's list of    *)
(* tracks is empty until the first scrape returns.                          *)
(***************************************************************************)
\* What download_gpx returns when the download succeeds: the text of a GPX file
GpxText == [text |-> "<gpx/>"]

\* download_all_gpx after the first k tracks; fetched[i] tells whether
\* download_gpx returned content for track i
RECURSIVE DownloadLoop(_, _, _, _)
DownloadLoop(table, tracks, fetched, k) ==
    IF k = 0 THEN table
    ELSE LET before == DownloadLoop(table, tracks, fetched, k - 1)
         IN  IF fetched[k] THEN SaveTrackToDb(before, tracks[k], GpxText) ELSE before

InitSession ==
    /\ config_arg = None
    /\ config = InitConfig(config_arg)
    /\ argv = <<>>
    /\ pc = "session"
    /\ Idle
    /\ AngleIdle
    /\ strategies = None
    /\ use_selenium = FALSE
    /\ \E found \in [{"coordinates", "api"} -> IdLists] :
          web = [n \in StrategyNames |->
                    IF n \in DOMAIN found THEN Listing(n, found[n]) ELSE <<>>]
    /\ all_tracks = <<>>
    /\ db = <<>>
    /\ saves = <<>>
    /\ downloaded = {}

\* tracks = scraper.scrape_hot_zone(zone, strats)
SessionScrape(strats) ==
    /\ pc = "session"
    /\ strategies' = strats
    /\ LET out == ScrapeLoop(Strategies(strats), Len(Strategies(strats)), web, use_selenium, db)
       IN  /\ all_tracks' = out.all_tracks
           /\ db' = out.db
           /\ saves' = out.saves
    /\ UNCHANGED <<detectorVars, angleVars, use_selenium, web, downloaded>>

\* scraper.download_all_gpx(tracks) on the list of the last scrape; each
\* download succeeds or fails
SessionDownloadAllGpx ==
    /\ pc = "session"
    /\ \E fetched \in [1..Len(all_tracks) -> BOOLEAN] :
          /\ db' = DownloadLoop(db, all_tracks, fetched, Len(all_tracks))
          /\ downloaded' = downloaded \cup
                 {all_tracks[i].track_id : i \in {j \in 1..Len(all_tracks) : fetched[j]}}
    /\ UNCHANGED <<detectorVars, angleVars, use_selenium, web, strategies, all_tracks, saves>>

\* scraper.save_track_to_db(track, gpx_content) on a track of the last scrape
SessionSaveTrack ==
    /\ pc = "session"
    /\ \E i \in 1..Len(all_tracks), given \in BOOLEAN :
          db' = SaveTrackToDb(db, all_tracks[i], IF given THEN GpxText ELSE None)
    /\ UNCHANGED <<detectorVars, angleVars, use_selenium, web, strategies, all_tracks, saves,
                   downloaded>>

NextSession ==
    \/ \E strats \in StrategyLists : SessionScrape(strats)
    \/ SessionDownloadAllGpx
    \/ SessionSaveTrack

SpecSession == InitSession /\ [][NextSession]_vars

(***************************************************************************)
(* Properties.                                                              *)
(***************************************************************************)
\* The number of points of the file of the last call
NPoints == Len(gpx_file.points)

\* C1: a series of 0 or 1 points ends in a failure raised before any metric is
\* computed, and no result record is returned.
C1_ShortSeriesFailsValidation ==
    (pc \in {"returned", "raised"} /\ NPoints < 2) =>
        (pc = "raised" /\ metrics = None /\ total_score = None /\ result = None)

\* The arrangements of the points with index in left that are in ascending time order
RECURSIVE Arrangements(_, _)
Arrangements(points, left) ==
    IF left = {} THEN {<<>>}
    ELSE UNION {{<<points[i]>> \o rest : rest \in Arrangements(points, left \ {i})} :
                i \in {j \in left : \A k \in left : points[j].time <= points[k].time}}

DistinctTimes(points) ==
    \A i, j \in 1..Len(points) : i # j => points[i].time # points[j].time

\* What analyze_gpx returns for the points of the last call given in the order q
ResultFor(q) == AnalyzeGpx([gpx_file EXCEPT !.points = q], config).result

\* C2 as claimed: for a series of at least 2 points in any order the metrics are
\* computed on the rows sorted by time, and the record equals the record of
\* the same points given in time order.
C2_AnyOrderSameResult ==
    (pc = "returned" /\ NPoints >= 2) =>
        /\ Ascending(df)
        /\ \A q \in Arrangements(gpx_file.points, 1..NPoints) : ResultFor(q) = result

\* C2 as amended: the same, for a series whose timestamps are pairwise distinct.
C2_DistinctTimesAnyOrderSameResult ==
    (pc = "returned" /\ NPoints >= 2 /\ DistinctTimes(gpx_file.points)) =>
        /\ Ascending(df)
        /\ \A q \in Arrangements(gpx_file.points, 1..NPoints) : ResultFor(q) = result

C2_Witness ==
    /\ pc = "returned"
    /\ NPoints >= 3
    /\ DistinctTimes(gpx_file.points)
    /\ ~Ascending(gpx_file.points)

\* The speed of the segment from row i to row i + 1 is defined and below limit
SegmentSlower(i, limit) ==
    /\ df[i + 1].time > df[i].time
    /\ Lt(Div(Geodesic(LatLon(df[i]), LatLon(df[i + 1])),
              Div(Num(df[i + 1].time - df[i].time), Num(3600))),
          limit)

\* C3: when the speed of every segment (its distance over its own elapsed time)
\* is below max_mushroom_speed, the avg_speed sub-score is exactly 1.
C3_SlowSegmentsScoreOne ==
    (/\ pc = "returned"
     /\ NPoints >= 2
     /\ \A i \in 1..(NPoints - 1) : SegmentSlower(i, config["max_mushroom_speed"]))
        => Scores(metrics, config)["avg_speed"] = Num(1)

\* The rows from j to the last are all below the stop threshold
OpenRunFrom(j) ==
    \A k \in j..Len(df) : Lt(df[k].speed_kmh, config["stop_speed_threshold"])

\* The rows at which the track resumes: at or above the threshold, after a row below it
Resumes ==
    {k \in 2..Len(df) : /\ ~Lt(df[k].speed_kmh, config["stop_speed_threshold"])
                        /\ Lt(df[k - 1].speed_kmh, config["stop_speed_threshold"])}

\* C4: stop_count grows only at a row that resumes movement after a stop, and a
\* run still open at the last row adds nothing, whatever its duration.
C4_OpenRunNotCounted ==
    metrics # None =>
        /\ metrics.stop_count <= Cardinality(Resumes)
        /\ \A k \in 1..Len(df) :
              LET before == StopLoop(df, k - 1, config["stop_speed_threshold"],
                                     config["min_stop_duration"])
                  after == StopLoop(df, k, config["stop_speed_threshold"],
                                    config["min_stop_duration"])
              IN  after.stop_count # before.stop_count =>
                      (k \in Resumes /\ before.in_stop /\ ~after.in_stop)
        /\ \A j \in 1..Len(df) :
              OpenRunFrom(j) =>
                  metrics.stop_count = StopLoop(df, j - 1, config["stop_speed_threshold"],
                                                config["min_stop_duration"]).stop_count

\* A run open at the last row that has lasted min_stop_duration
C4_Witness ==
    /\ metrics # None
    /\ LET s == StopLoop(df, Len(df), config["stop_speed_threshold"], config["min_stop_duration"])
       IN  s.in_stop /\ Ge(s.stop_duration, config["min_stop_duration"])
    /\ metrics.stop_count = 0

\* Values of min_stop_duration, in seconds
MinStopDurations == {0, 60, 61, 240, 300}

\* C5: for a fixed series, a smaller min_stop_duration never gives a smaller stop_count.
C5_StopCountMonotone ==
    metrics # None =>
        \A d1, d2 \in MinStopDurations :
            d1 <= d2 =>
                StopCount(df, config["stop_speed_threshold"], Num(d1))
                    >= StopCount(df, config["stop_speed_threshold"], Num(d2))

C5_Witness ==
    /\ metrics # None
    /\ StopCount(df, config["stop_speed_threshold"], Num(60)) = 1
    /\ StopCount(df, config["stop_speed_threshold"], Num(61)) = 0

NonNegativeWeights == \A k \in DOMAIN config["weights"] : Ge(config["weights"][k], Num(0))

WeightSum ==
    WeightedSum([k \in DOMAIN config["weights"] |-> Num(1)], config["weights"], Len(ScoreNames))

\* C6: for a series of at least 2 points and non-negative weights,
\* 0 <= total_score <= 100 * (sum of the weights).
C6_ScoreWithinWeightBound ==
    (pc = "returned" /\ NPoints >= 2 /\ NonNegativeWeights) =>
        /\ Ge(total_score, Num(0))
        /\ Le(total_score, Mul(Num(100), WeightSum))

\* A score above 100, under weights that sum to more than 1
C6_Witness ==
    /\ pc = "returned"
    /\ NPoints >= 2
    /\ NonNegativeWeights
    /\ Gt(total_score, Num(100))

\* C7: tortuosity_index >= 1 when straight_line_distance > 0, and exactly 1 when
\* it is 0, also for a track of some length that returns to its start.
C7_TortuosityAtLeastOne ==
    (metrics # None /\ NPoints >= 2) =>
        /\ Gt(metrics.straight_line_distance, Num(0)) => Ge(metrics.tortuosity_index, Num(1))
        /\ metrics.straight_line_distance = Num(0) => metrics.tortuosity_index = Num(1)

\* A track of some length that ends where it started, and one with a detour
C7_Witness ==
    /\ metrics # None
    /\ NPoints >= 2
    /\ metrics.straight_line_distance = Num(0)
    /\ Gt(metrics.total_distance, Num(0))
    /\ metrics.tortuosity_index = Num(1)

C9_FourBands ==
    pc = "interpreted" =>
        /\ interpretation \in {High, Medium, Low, NotLikely}
        /\ interpretation = High <=> Ge(total_score, Num(80))
        /\ interpretation = Medium <=> (Ge(total_score, Num(60)) /\ Lt(total_score, Num(80)))
        /\ interpretation = Low <=> (Ge(total_score, Num(40)) /\ Lt(total_score, Num(60)))
        /\ interpretation = NotLikely <=> Lt(total_score, Num(40))

C9_Witness ==
    /\ pc = "interpreted"
    /\ total_score = Num(80)
    /\ interpretation = High

\* C10: the options a given configuration leaves out take their defaults key by
\* key, and a series of at least 2 points is then scored.
C10_PartialConfigFallsBack ==
    /\ config_arg # None =>
          \A k \in ConfigKeys :
              /\ k \in DOMAIN config
              /\ config[k] = IF k \in DOMAIN config_arg THEN config_arg[k] ELSE DefaultConfig[k]
    /\ (pc \in {"returned", "raised"} /\ NPoints >= 2) => pc = "returned"


\* The configuration holds every option
CompleteConfig == ConfigKeys \subseteq DOMAIN config

\* C11: for a series of at least 2 points whose total_distance or
\* straight_line_distance is 0, the metrics and the score are computed without
\* an error, with tortuosity_index = 1 when straight_line_distance is 0 and
\* direction_changes_per_km = 0 and spatial_density = 0 when total_distance is 0.
C11_ZeroDistanceFallbacks ==
    (/\ pc \in {"returned", "raised"}
     /\ NPoints >= 2
     /\ CompleteConfig
     /\ LET sorted == ParseGpx(gpx_file).df
        IN  \/ Geodesic(LatLon(sorted[1]), LatLon(sorted[NPoints])) = Num(0)
            \/ \A i \in 1..(NPoints - 1) : LatLon(sorted[i]) = LatLon(sorted[i + 1]))
        => /\ pc = "returned"
           /\ metrics # None
           /\ total_score # None
           /\ ~IsNaN(total_score)
           /\ metrics.straight_line_distance = Num(0)
           /\ metrics.tortuosity_index = Num(1)
           /\ metrics.total_distance = Num(0) =>
                  /\ metrics.direction_changes_per_km = Num(0)
                  /\ metrics.spatial_density = Num(0)

\* Three points or more at one place
C11_Witness ==
    /\ pc = "returned"
    /\ NPoints >= 3
    /\ metrics.total_distance = Num(0)
    /\ metrics.straight_line_distance = Num(0)
    /\ metrics.spatial_density = Num(0)


\* C12: for a series of at least 2 points, each of the nine sub-scores lies in
\* [0,1] and each entry of component_scores in the record lies in 0..100.
C12_SubScoresInUnitInterval ==
    (pc = "returned" /\ NPoints >= 2) =>
        /\ DOMAIN result.component_scores = {ScoreNames[i] : i \in 1..Len(ScoreNames)}
        /\ \A k \in DOMAIN result.component_scores :
              /\ Ge(Scores(metrics, config)[k], Num(0))
              /\ Le(Scores(metrics, config)[k], Num(1))
              /\ Ge(result.component_scores[k], Num(0))
              /\ Le(result.component_scores[k], Num(100))

\* A track so much longer than max_duration that the duration score is floored at 0
C12_Witness ==
    /\ pc = "returned"
    /\ NPoints >= 2
    /\ Gt(metrics.total_duration, Mul(config["max_duration"], Num(3)))
    /\ result.component_scores["duration"] = Num(0)
    /\ Gt(result.component_scores["daytime"], Num(0))
    /\ Lt(result.component_scores["daytime"], Num(100))

\* C19: in a returned record the interpretation is the band of the total_score
\* the record reports, which is the score rounded to 2 decimal places.
C19_LabelOfReportedScore ==
    pc = "returned" =>
        /\ result.total_score = Round2(total_score)
        /\ result.interpretation = InterpretScore(result.total_score)


\* Row i of df is below the stop threshold
Below(i) == Lt(df[i].speed_kmh, config["stop_speed_threshold"])

\* The maximal runs <<a, b>> of rows below the threshold that a row at or above
\* the threshold follows
ClosedRuns ==
    {r \in (1..Len(df)) \X (1..Len(df)) :
        /\ r[1] <= r[2]
        /\ \A k \in r[1]..r[2] : Below(k)
        /\ r[1] = 1 \/ ~Below(r[1] - 1)
        /\ r[2] < Len(df)
        /\ Ge(df[r[2] + 1].speed_kmh, config["stop_speed_threshold"])}

\* The time-deltas to the previous point summed over the rows of the run, the
\* first row of the series adding 0: the time from the row before the run
\* (the first row, if the run starts there) to the last row of the run
RunSeconds(r) == df[r[2]].time - df[IF r[1] = 1 THEN 1 ELSE r[1] - 1].time

\* C13: stop_count is the number of maximal runs of rows below the threshold
\* that are followed by a row at or above it and whose summed time-deltas reach
\* min_stop_duration; each run counts once, on its own time only.
C13_StopCountIsClosedLongRuns ==
    metrics # None =>
        /\ metrics.stop_count =
              Cardinality({r \in ClosedRuns : Ge(Num(RunSeconds(r)), config["min_stop_duration"])})
        /\ \A d \in MinStopDurations :
              StopCount(df, config["stop_speed_threshold"], Num(d)) =
                  Cardinality({r \in ClosedRuns : RunSeconds(r) >= d})

\* Two closed runs: the first long enough, the second too short on its own time
C13_Witness ==
    /\ metrics # None
    /\ Cardinality(ClosedRuns) = 2
    /\ metrics.stop_count = 1
    /\ \E r1, r2 \in ClosedRuns :
          /\ r1[2] < r2[1]
          /\ Ge(Num(RunSeconds(r1)), config["min_stop_duration"])
          /\ Lt(Num(RunSeconds(r2)), config["min_stop_duration"])

\* C14: speed_kmh at row i is the distance from point i to point i + 1 over the
\* time from point i to point i + 1, in km/h, and 0 when that time is zero or
\* there is no next point.
C14_SpeedOfOwnSegment ==
    metrics # None =>
        \A i \in 1..Len(df) :
            df[i].speed_kmh =
                IF i < Len(df) /\ df[i + 1].time > df[i].time
                THEN Div(Geodesic(LatLon(df[i]), LatLon(df[i + 1])),
                         Div(Num(df[i + 1].time - df[i].time), Num(3600)))
                ELSE Num(0)

\* The compass heading, in degrees, of the way from one corner of the square
\* to another
Heading(from, to) ==
    LET north == to.latitude - from.latitude
        east == to.longitude - from.longitude
    IN  CASE north > 0 /\ east = 0 -> 0
          [] north > 0 /\ east > 0 -> 45
          [] north = 0 /\ east > 0 -> 90
          [] north < 0 /\ east > 0 -> 135
          [] north < 0 /\ east = 0 -> 180
          [] north < 0 /\ east < 0 -> 225
          [] north = 0 /\ east < 0 -> 270
          [] north > 0 /\ east < 0 -> 315

\* The angle between two headings, in 0..180
Turn(h1, h2) == IF Abs(h2 - h1) > 180 THEN 360 - Abs(h2 - h1) ELSE Abs(h2 - h1)

Moves(i) == LatLon(df[i]) # LatLon(df[i + 1])

\* The interior points where the track arrives moving, leaves moving, and
\* turns by more than the threshold
SharpTurns ==
    {i \in 2..(Len(df) - 1) :
        /\ Moves(i - 1)
        /\ Moves(i)
        /\ Gt(Num(Turn(Heading(df[i - 1], df[i]), Heading(df[i], df[i + 1]))),
              config["direction_change_threshold"])}

\* C15: the direction changes are the interior points whose two segments both
\* have a length and whose bearings differ by more than
\* direction_change_threshold; a point next to a segment of no length adds none.
C15_DirectionChangesCounted ==
    (metrics # None /\ NPoints >= 2) =>
        /\ metrics.direction_changes_per_km =
              DirectionChangesPerKm(Cardinality(SharpTurns), metrics.total_distance)
        /\ (\A i \in 2..(Len(df) - 1) : ~Moves(i - 1) \/ ~Moves(i)) =>
              metrics.direction_changes_per_km = Num(0)

\* A track that turns back after a pause: east, a pause at the corner, west
C15_Witness ==
    /\ metrics # None
    /\ NPoints = 4
    /\ Moves(1) /\ ~Moves(2) /\ Moves(3)
    /\ Heading(df[1], df[2]) = 90
    /\ Heading(df[3], df[4]) = 270
    /\ metrics.direction_changes_per_km = Num(0)

Reversal == Abs(bearings[2][1] * bearings[1][2] - bearings[1][1] * bearings[2][2])
                = 180 * bearings[1][2] * bearings[2][2]

\* C16 as claimed: the signed delta of two bearings of [0, 360) lies in
\* (-180, 180]: it is never -180, and a full reversal gives +180.
C16_DeltaAboveMinus180 ==
    pc = "angled" =>
        /\ Gt(delta, Num(-180))
        /\ Le(delta, Num(180))
        /\ Reversal => delta = Num(180)

\* C16 as amended: the signed delta lies in [-180, 180], a full reversal gives
\* -180, and the angle compared with the threshold is its absolute value.
C16_DeltaWithinHalfTurn ==
    pc = "angled" =>
        /\ Ge(delta, Num(-180))
        /\ Le(delta, Num(180))
        /\ Reversal => (delta = Num(-180) /\ angle_change = Num(180))
        /\ angle_change = (IF Lt(delta, Num(0)) THEN Neg(delta) ELSE delta)
        /\ Ge(angle_change, Num(0))
        /\ Le(angle_change, Num(180))

\* A full reversal, from 270 degrees to 90 degrees
C16_Witness ==
    /\ pc = "angled"
    /\ bearings = <<Num(270), Num(90)>>
    /\ delta = Num(-180)
    /\ angle_change = Num(180)

\* The records of the files of fs whose analysis returns, in order
RECURSIVE Records(_, _)
Records(fs, k) ==
    IF k = 0 THEN <<>>
    ELSE LET out == AnalyzeGpx(fs[k], DefaultConfig)
         IN  IF out.error = "" THEN Append(Records(fs, k - 1), out.result)
             ELSE Records(fs, k - 1)

\* C17: in main, a file whose analysis fails does not end the loop; the results
\* hold one record for each file analyzed without failure, in order, none for
\* the others, and they are written when every file has been tried.
C17_BatchSurvivesFailures ==
    /\ results = Records(processed, Len(processed))
    /\ (error # "" /\ argv # <<>>) => pc = "main"
    /\ pc = "saved" => (argv = <<>> /\ saved = results)
    /\ pc # "saved" => saved = None

\* A batch written after a file that failed was followed by one that did not
C17_Witness ==
    /\ pc = "saved"
    /\ Len(processed) = 3
    /\ AnalyzeGpx(processed[1], DefaultConfig).error # ""
    /\ AnalyzeGpx(processed[2], DefaultConfig).error = ""
    /\ AnalyzeGpx(processed[3], DefaultConfig).error # ""
    /\ Len(saved) = 1

\* C18: calculate_metrics and calculate_mushroom_score leave the series they
\* are given and the configuration as they were: no column added or altered.
C18_InputsUnchanged ==
    metrics # None =>
        /\ df = ParseGpx(gpx_file).df
        /\ config = InitConfig(config_arg)


\* Every track the strategies of the call found, in the order of discovery
RECURSIVE Discovered(_)
Discovered(k) ==
    IF k = 0 THEN <<>>
    ELSE Discovered(k - 1) \o Search(Strategies(strategies)[k], web, use_selenium)

\* The first position in found of a track with this id
FirstFound(found, id) ==
    CHOOSE i \in 1..Len(found) :
        /\ found[i].track_id = id
        /\ \A j \in 1..(i - 1) : found[j].track_id # id

\* C20: the list scrape_hot_zone returns has no two tracks of one track_id, has
\* for every track_id found by a strategy it ran the first track found with
\* it, in discovery order, and each returned track was saved to the cache
\* exactly once during the call.
C20_UniqueFirstFoundSavedOnce ==
    pc = "scraped" =>
        LET found == Discovered(Len(Strategies(strategies)))
        IN  /\ \A i, j \in 1..Len(all_tracks) :
                  i # j => all_tracks[i].track_id # all_tracks[j].track_id
            /\ {all_tracks[i].track_id : i \in 1..Len(all_tracks)}
                  = {found[i].track_id : i \in 1..Len(found)}
            /\ \A i \in 1..Len(all_tracks) :
                  all_tracks[i] = found[FirstFound(found, all_tracks[i].track_id)]
            /\ \A i, j \in 1..Len(all_tracks) :
                  i < j => FirstFound(found, all_tracks[i].track_id)
                               < FirstFound(found, all_tracks[j].track_id)
            /\ Len(saves) = Len(all_tracks)
            /\ \A i \in 1..Len(all_tracks) :
                  /\ Cardinality({k \in 1..Len(saves) : saves[k] = all_tracks[i]}) = 1
                  /\ all_tracks[i].track_id \in DOMAIN db
                  /\ db[all_tracks[i].track_id].title = all_tracks[i].title

\* Two searches that list the same two ids, the second in the other order
C20_Witness ==
    /\ pc = "scraped"
    /\ strategies = None
    /\ Len(web["coordinates"]) = 2
    /\ Len(web["keywords"]) = 2
    /\ web["coordinates"][1].track_id = web["keywords"][2].track_id
    /\ web["coordinates"][2].track_id = web["keywords"][1].track_id
    /\ web["coordinates"][1].track_id # web["coordinates"][2].track_id
    /\ web["api"] = <<>>
    /\ Len(all_tracks) = 2
    /\ all_tracks = web["coordinates"]
    /\ Len(saves) = 2


\* C21: a track_id for which download_all_gpx has stored GPX content keeps a
\* non-null gpx_content in the cache through every later scrape_hot_zone,
\* download_all_gpx and save_track_to_db.
C21_DownloadedGpxKept ==
    \A id \in downloaded : id \in DOMAIN db /\ db[id].gpx_content # None

====
